---- MODULE Spec2Model ----
(***************************************************************************)
(* Growth Funnel Lab (src/app.py): a Streamlit script that is re-executed  *)
(* from top to bottom on every user interaction.  One action of this model *)
(* is one interaction followed by the whole script run it triggers.        *)
(*                                                                         *)
(* Modelling conventions                                                   *)
(*   - a column name is a tuple of one-character strings, so that          *)
(*     str.lower, str.strip and sorted() are computed character by         *)
(*     character;                                                          *)
(*   - a timestamp is a number of ticks, TicksPerDay ticks to the day; a   *)
(*     CSV date cell is the string [k |-> "str", t |-> t] and              *)
(*     pd.to_datetime turns it into the timestamp [k |-> "ts", t |-> t];   *)
(*   - sums are exact (amounts are whole units);                           *)
(*   - a rounded ratio is an integer scaled by 10^decimals;                *)
(*   - every file has at least one data row and parsable dates.            *)
(***************************************************************************)
EXTENDS Integers, Sequences, FiniteSets, TLC

VARIABLES uploaded, cache, parses, loads, widgets, out, event, loaded, firstSample, lastSample

vars == <<uploaded, cache, parses, loads, widgets, out, event, loaded, firstSample, lastSample>>

\* ---------------------------------------------------------------- bounds
MaxRows == 2
MaxVal == 1
MaxDay == 1
MaxLoads == 3

\* ticks per calendar day: .dt.date drops the time of day
TicksPerDay == 2

Null == [k |-> "null"]

\* ------------------------------------------------------------ characters
Upper == <<"A","B","C","D","E","F","G","H","I","J","K","L","M",
           "N","O","P","Q","R","S","T","U","V","W","X","Y","Z">>

Lower == <<"a","b","c","d","e","f","g","h","i","j","k","l","m",
           "n","o","p","q","r","s","t","u","v","w","x","y","z">>

Chars == {" ", "_"} \cup {Upper[i] : i \in 1..26} \cup {Lower[i] : i \in 1..26}

\* code points (ASCII)
CodePoints ==
  [c \in Chars |->
     IF c = " " THEN 32
     ELSE IF c = "_" THEN 95
     ELSE IF \E i \in 1..26 : Upper[i] = c THEN 64 + (CHOOSE i \in 1..26 : Upper[i] = c)
     ELSE 96 + (CHOOSE i \in 1..26 : Lower[i] = c)]

Code(c) == CodePoints[c]

LowerChars ==
  [c \in Chars |->
     IF \E i \in 1..26 : Upper[i] = c THEN Lower[CHOOSE i \in 1..26 : Upper[i] = c] ELSE c]

LowerChar(c) == LowerChars[c]

\* str.lower()
lower(s) == [i \in 1..Len(s) |-> LowerChar(s[i])]

RECURSIVE lstrip(_)
lstrip(s) == IF s # <<>> /\ s[1] = " " THEN lstrip(Tail(s)) ELSE s

RECURSIVE rstrip(_)
rstrip(s) == IF s # <<>> /\ s[Len(s)] = " " THEN rstrip(SubSeq(s, 1, Len(s) - 1)) ELSE s

\* str.strip()
strip(s) == rstrip(lstrip(s))

\* a < b for Python strings: lexicographic by code point
RECURSIVE StrLess(_, _)
StrLess(a, b) ==
  IF b = <<>> THEN FALSE
  ELSE IF a = <<>> THEN TRUE
  ELSE IF Code(a[1]) # Code(b[1]) THEN Code(a[1]) < Code(b[1])
  ELSE StrLess(Tail(a), Tail(b))

\* sorted(list(S)) for a set of strings
RECURSIVE sorted(_)
sorted(S) ==
  IF S = {} THEN <<>>
  ELSE LET m == CHOOSE x \in S : \A y \in S \ {x} : StrLess(x, y)
       IN <<m>> \o sorted(S \ {m})

\* ----------------------------------------------------------- column names
cDate == <<"d","a","t","e">>
cChannel == <<"c","h","a","n","n","e","l">>
cVisits == <<"v","i","s","i","t","s">>
cSignup == <<"s","i","g","n","u","p">>
cCart == <<"a","d","d","_","t","o","_","c","a","r","t">>
cCheckout == <<"c","h","e","c","k","o","u","t">>
cPurchase == <<"p","u","r","c","h","a","s","e">>
cSpend == <<"s","p","e","n","d">>
cRevenue == <<"r","e","v","e","n","u","e">>

\* the header of a well-formed file, in the order of the input format
Header == <<cDate, cChannel, cVisits, cSignup, cCart, cCheckout, cPurchase, cSpend, cRevenue>>

required == {cDate, cChannel, cVisits, cSignup, cCart, cCheckout, cPurchase, cSpend, cRevenue}

\* ------------------------------------------------------------ data frames
\* A frame is [cols |-> <<name, ...>>, rows |-> <<[idx, cells], ...>>]; idx
\* is the pandas index label, cells are aligned with cols.
Pos(cols, name) == CHOOSE i \in 1..Len(cols) : cols[i] = name

Cell(df, r, name) == r.cells[Pos(df.cols, name)]

ColSet(df) == {df.cols[i] : i \in 1..Len(df.cols)}

\* pd.read_csv: a fresh frame with a RangeIndex
read_csv(file) ==
  [cols |-> file.cols,
   rows |-> [i \in 1..Len(file.rows) |-> [idx |-> i - 1, cells |-> file.rows[i]]]]

\* variant of the normalisation that lower-cases without trimming
NormaliseColumns_no_strip(df) ==
  [df EXCEPT !.cols = [i \in 1..Len(df.cols) |-> lower(df.cols[i])]]

\* df.columns = [c.lower().strip() for c in df.columns]
NormaliseColumns(df) ==
  [df EXCEPT !.cols = [i \in 1..Len(df.cols) |-> strip(lower(df.cols[i]))]]

missing(df) == required \ ColSet(df)

\* pd.to_datetime of one cell: a string is parsed, a timestamp is kept
to_datetime(c) == IF c.k = "str" THEN [k |-> "ts", t |-> c.t] ELSE c

\* df["date"] = pd.to_datetime(df["date"])
ParseDates(df) ==
  LET p == Pos(df.cols, cDate)
  IN [df EXCEPT !.rows = [i \in 1..Len(df.rows) |->
        [df.rows[i] EXCEPT !.cells[p] = to_datetime(df.rows[i].cells[p])]]]

\* Timestamp.date()
date(ts) == ts.t \div TicksPerDay

\* ---------------------------------------------------------------- widgets
\* A widget keeps the user's value only while it is rendered with the same
\* identity (label, default value, options); otherwise it shows its default.
NoWidget == [k |-> "none"]

WidgetValue(w, id, default) == IF w.k = "set" /\ w.id = id THEN w.val ELSE default

NoWidgets == [start |-> NoWidget, end |-> NoWidget, channels |-> NoWidget]

\* ---------------------------------------------------------------- Filters
MinOf(S) == CHOOSE x \in S : \A y \in S : x <= y

MaxOf(S) == CHOOSE x \in S : \A y \in S : x >= y

Dates(df) == {Cell(df, df.rows[i], cDate).t : i \in 1..Len(df.rows)}

Timestamp(t) == [k |-> "ts", t |-> t]

\* variant of mask with an exclusive end date
mask_exclusive_end(df, r, start, end) ==
  date(Cell(df, r, cDate)) >= start /\ date(Cell(df, r, cDate)) < end

\* mask = (df["date"].dt.date >= start) & (df["date"].dt.date <= end)
mask(df, r, start, end) ==
  date(Cell(df, r, cDate)) >= start /\ date(Cell(df, r, cDate)) <= end

\* df[mask].copy()
FilterDates(df, start, end) ==
  [df EXCEPT !.rows = SelectSeq(df.rows, LAMBDA r : mask(df, r, start, end))]

\* sorted(df["channel"].unique())
unique(df) == sorted({Cell(df, df.rows[i], cChannel) : i \in 1..Len(df.rows)})

\* df[df["channel"].isin(channels)]
FilterChannels(df, channels) ==
  [df EXCEPT !.rows = SelectSeq(df.rows, LAMBDA r : Cell(df, r, cChannel) \in channels)]

\* ------------------------------------------------------------- arithmetic
RECURSIVE SumRows(_, _)
SumRows(rows, p) ==
  IF rows = <<>> THEN 0 ELSE rows[1].cells[p] + SumRows(Tail(rows), p)

\* df[name].sum()
Sum(df, name) == SumRows(df.rows, Pos(df.cols, name))

RECURSIVE Pow10(_)
Pow10(n) == IF n = 0 THEN 1 ELSE 10 * Pow10(n - 1)

\* the integer nearest to n/d (d > 0), halves to the even neighbour
RoundHalfEven(n, d) ==
  LET q == n \div d
      r == n % d
  IN IF 2 * r < d THEN q
     ELSE IF 2 * r > d THEN q + 1
     ELSE IF q % 2 = 0 THEN q ELSE q + 1

NaN == [k |-> "nan", v |-> 0]
NA == [k |-> "na", v |-> 0]
PosInf == [k |-> "inf", v |-> 0]
NegInf == [k |-> "-inf", v |-> 0]
Num(v) == [k |-> "num", v |-> v]

\* (n / d).round(dec) on float columns: division by zero gives nan or +-inf
FloatDiv(n, d, dec) ==
  IF d = 0 THEN (IF n = 0 THEN NaN ELSE IF n > 0 THEN PosInf ELSE NegInf)
  ELSE Num(RoundHalfEven(n * Pow10(dec), d))

\* (n / d.replace({0: pd.NA})).round(dec)
NADiv(n, d, dec) == IF d = 0 THEN NA ELSE Num(RoundHalfEven(n * Pow10(dec), d))

IsMissing(x) == x.k \in {"nan", "na"}

\* a >= b for two values that are not missing
Ge(a, b) ==
  IF a.k = "inf" \/ b.k = "-inf" THEN TRUE
  ELSE IF a.k = "-inf" \/ b.k = "inf" THEN FALSE
  ELSE a.v >= b.v

\* ------------------------------------------------------------------- KPIs
\* an unrounded quotient n/d is the pair <<n, d>>; the literal 0 is <<0, 1>>
spend(df) == Sum(df, cSpend)
revenue(df) == Sum(df, cRevenue)
purchases(df) == Sum(df, cPurchase)
visits(df) == Sum(df, cVisits)

roas(df) == IF spend(df) # 0 THEN <<revenue(df), spend(df)>> ELSE <<0, 1>>
cac(df) == IF purchases(df) # 0 THEN <<spend(df), purchases(df)>> ELSE <<0, 1>>
cvr(df) == IF visits(df) # 0 THEN <<purchases(df), visits(df)>> ELSE <<0, 1>>

KPIs(df) ==
  [spend |-> spend(df), revenue |-> revenue(df), purchases |-> purchases(df),
   visits |-> visits(df), roas |-> roas(df), cac |-> cac(df), cvr |-> cvr(df)]

\* ----------------------------------------------------------------- Funnel
Stages == <<"Visits", "Signup", "Add to Cart", "Checkout", "Purchase">>

StageCols == <<cVisits, cSignup, cCart, cCheckout, cPurchase>>

\* funnel["count"]
count(df) == [i \in 1..Len(Stages) |-> Sum(df, StageCols[i])]

\* funnel["dropoff_%"] = ((count - count.shift(-1)) / count).round(4)
dropoff(c, i) == IF i = Len(c) THEN NaN ELSE FloatDiv(c[i] - c[i + 1], c[i], 4)

funnel(df) ==
  LET c == count(df)
  IN [i \in 1..Len(Stages) |->
        [stage |-> Stages[i], count |-> c[i],
         next |-> IF i = Len(Stages) THEN NaN ELSE Num(c[i + 1]),
         dropoff |-> dropoff(c, i)]]

\* ------------------------------------------------------------------ Trend
RECURSIVE SortInts(_)
SortInts(S) == IF S = {} THEN <<>> ELSE <<MinOf(S)>> \o SortInts(S \ {MinOf(S)})

\* variant of Group that keeps only the first row of the group
Group_first(df, name, key) ==
  LET g == SelectSeq(df.rows, LAMBDA r : Cell(df, r, name) = key)
  IN [df EXCEPT !.rows = IF g = <<>> THEN g ELSE <<g[1]>>]

\* the rows of one group of df.groupby(name)
Group(df, name, key) ==
  [df EXCEPT !.rows = SelectSeq(df.rows, LAMBDA r : Cell(df, r, name) = key)]

\* df.groupby("date", as_index=False)[["spend","revenue","purchase"]].sum()
trend(df) ==
  LET keys == SortInts(Dates(df))
  IN [i \in 1..Len(keys) |->
        LET g == Group(df, cDate, Timestamp(keys[i]))
        IN [date |-> keys[i], spend |-> Sum(g, cSpend), revenue |-> Sum(g, cRevenue),
            purchase |-> Sum(g, cPurchase)]]

\* ---------------------------------------------------- Channel performance
\* df.groupby("channel", as_index=False).agg(...) plus the three ratios
by_ch(df) ==
  LET keys == unique(df)
  IN [i \in 1..Len(keys) |->
        LET g == Group(df, cChannel, keys[i])
        IN [channel |-> keys[i],
            spend |-> Sum(g, cSpend), revenue |-> Sum(g, cRevenue),
            purchase |-> Sum(g, cPurchase), visits |-> Sum(g, cVisits),
            roas |-> FloatDiv(Sum(g, cRevenue), Sum(g, cSpend), 2),
            cac |-> NADiv(Sum(g, cSpend), Sum(g, cPurchase), 2),
            cvr |-> NADiv(Sum(g, cPurchase), Sum(g, cVisits), 4)]]

\* --------------------------------------------------------------- Insights
\* sort_values(key, ascending).head(1), as the set of positions it can
\* return: rows with a missing key are placed last in their original order,
\* the others are ordered by key; the default kind="quicksort" is not a
\* stable sort, so any of the rows that share the extreme key may come first.
head1(keys, ascending) ==
  LET present == {i \in 1..Len(keys) : ~IsMissing(keys[i])}
  IN IF present = {} THEN (IF Len(keys) = 0 THEN {} ELSE {1})
     ELSE {i \in present : \A j \in present :
             IF ascending THEN Ge(keys[j], keys[i]) ELSE Ge(keys[i], keys[j])}

\* funnel.dropna()
dropna(f) == SelectSeq(f, LAMBDA r : ~IsMissing(r.next) /\ ~IsMissing(r.dropoff))

\* by_ch.sort_values("roas", ascending=False).head(1)
best(ch) == {[channel |-> ch[i].channel, roas |-> ch[i].roas] :
               i \in head1([i \in 1..Len(ch) |-> ch[i].roas], FALSE)}

\* by_ch.sort_values("roas", ascending=True).head(1)
worst(ch) == {[channel |-> ch[i].channel, roas |-> ch[i].roas] :
                i \in head1([i \in 1..Len(ch) |-> ch[i].roas], TRUE)}

\* funnel.dropna().sort_values("dropoff_%", ascending=False).head(1)
drop(f) ==
  LET g == dropna(f)
  IN {[stage |-> g[i].stage, dropoff |-> g[i].dropoff] :
        i \in head1([i \in 1..Len(g) |-> g[i].dropoff], FALSE)}

\* --------------------------------------------------------- the script run
Range(s) == {s[i] : i \in 1..Len(s)}

NoOutput ==
  [status |-> "nodata", missing |-> <<>>, start |-> 0, end |-> 0, channels |-> <<>>,
   rows |-> <<>>, kpi |-> Null, funnel |-> <<>>, trend |-> <<>>, by_ch |-> <<>>,
   best |-> Null, worst |-> Null, drop |-> Null]

\* st.error(f"Missing columns: {sorted(list(missing))}"); st.stop()
MissingColumns(df) == [NoOutput EXCEPT !.status = "missing", !.missing = sorted(missing(df))]

\* Lines 37-114 on the validated, date-parsed frame d with widget state w:
\* the set of possible [out, widgets].  iloc[0] of an empty head(1) raises
\* IndexError, which ends the run after what was rendered before it.
Render(d, w) ==
  LET dStart == date(Timestamp(MinOf(Dates(d))))
      dEnd == date(Timestamp(MaxOf(Dates(d))))
      start == WidgetValue(w.start, dStart, dStart)
      end == WidgetValue(w.end, dEnd, dEnd)
      d3 == FilterDates(d, start, end)
      options == unique(d3)
      channels == WidgetValue(w.channels, options, options)
      df == FilterChannels(d3, Range(channels))
      f == funnel(df)
      ch == by_ch(df)
      shown == [NoOutput EXCEPT !.start = start, !.end = end, !.channels = channels,
                  !.rows = df.rows, !.kpi = KPIs(df), !.funnel = f,
                  !.trend = trend(df), !.by_ch = ch]
      ws == [start |-> [k |-> "set", id |-> dStart, val |-> start],
             end |-> [k |-> "set", id |-> dEnd, val |-> end],
             channels |-> [k |-> "set", id |-> options, val |-> channels]]
  IN IF best(ch) = {}
       THEN {[out |-> [shown EXCEPT !.status = "IndexError"], widgets |-> ws]}
     ELSE IF drop(f) = {}
       THEN {[out |-> [shown EXCEPT !.status = "IndexError", !.best = b, !.worst = x],
              widgets |-> ws] : b \in best(ch), x \in worst(ch)}
     ELSE {[out |-> [shown EXCEPT !.status = "ok", !.best = b, !.worst = x, !.drop = y],
            widgets |-> ws] : b \in best(ch), x \in worst(ch), y \in drop(f)}

\* Lines 27-114 on the frame df bound at lines 19-22.  mutated is df's
\* object after the in-place assignments of lines 27 and 35.
Script(df, w) ==
  LET d1 == NormaliseColumns(df)
  IN IF missing(d1) # {}
       THEN {[out |-> MissingColumns(d1), widgets |-> NoWidgets, mutated |-> d1]}
     ELSE LET d2 == ParseDates(d1)
          IN {[out |-> o.out, widgets |-> o.widgets, mutated |-> d2] : o \in Render(d2, w)}

\* ------------------------------------------------------------------ files
NoFile == Null

File(cols, rows) == [cols |-> cols, rows |-> rows]

\* one CSV line: the date as text, the channel, the seven numbers
Row(t, ch, v, s, a, c, p, sp, re) == <<[k |-> "str", t |-> t], ch, v, s, a, c, p, sp, re>>

ads == <<"a","d","s">>
seo == <<"s","e","o">>
ChannelNames == {ads, seo}

Days == 0..MaxDay
Ticks == 0..((MaxDay + 1) * TicksPerDay - 1)
Vals == 0..MaxVal

SeqsUpTo(S, n) == UNION {[1..m -> S] : m \in 1..n}

UpperChar(c) ==
  IF \E i \in 1..26 : Lower[i] = c THEN Upper[CHOOSE i \in 1..26 : Lower[i] = c] ELSE c

\* a header cell as a spreadsheet export may write it: " Date "
Messy(name) == <<" ", UpperChar(name[1])>> \o Tail(name) \o <<" ">>

\* sample_data.csv, the bundled file
SampleFile ==
  File(Header, <<Row(0, ads, 8, 4, 3, 1, 1, 2, 6), Row(1, seo, 8, 4, 3, 1, 1, 1, 2),
                 Row(2, ads, 8, 4, 3, 1, 0, 1, 0)>>)

GoodFile ==
  File(Header, <<Row(1, seo, 8, 4, 3, 1, 1, 2, 4), Row(2, ads, 8, 4, 3, 1, 1, 1, 3)>>)

MessyFile ==
  File([i \in 1..Len(Header) |-> Messy(Header[i])], <<Row(0, ads, 2, 1, 1, 1, 1, 1, 2)>>)

NoRevenueFile ==
  File(SubSeq(Header, 1, Len(Header) - 1), <<<<[k |-> "str", t |-> 0], ads, 2, 1, 1, 1, 1, 1>>>>)

\* the files the user uploads in the interaction specification
Files == {GoodFile, MessyFile, NoRevenueFile}

\* every way of writing or leaving out each required column, one data row
ColFiles ==
  LET line == Row(0, ads, 2, 1, 1, 1, 1, 1, 2)
      all == [i \in 1..Len(Header) |-> i]
  IN {LET keep == SelectSeq(all, LAMBDA i : v[i] # "absent")
      IN File([j \in 1..Len(keep) |->
                 IF v[keep[j]] = "messy" THEN Messy(Header[keep[j]]) ELSE Header[keep[j]]],
              <<[j \in 1..Len(keep) |-> line[keep[j]]]>>)
      : v \in [1..Len(Header) -> {"plain", "messy", "absent"}]}

\* every date and channel layout of up to MaxRows rows (the two channels
\* earn differently, so that their ROAS differ)
FilterFiles ==
  {File(Header, rows) :
     rows \in SeqsUpTo({Row(t, ch, 8, 4, 3, 1, 1, 1, IF ch = ads THEN 2 ELSE 1) :
                          t \in Ticks, ch \in ChannelNames}, MaxRows)}

\* every layout over two channels of rows that spend sp and earn the rest
\* of MaxVal (visits follow spend, purchases follow revenue)
ChanFiles ==
  {File(Header, rows) :
     rows \in SeqsUpTo({Row(1, ch, 8 * sp, 4, 3, 1, MaxVal - sp, sp, MaxVal - sp) :
                          ch \in ChannelNames, sp \in Vals}, MaxRows)}

\* every layout of the five funnel counts
FunnelFiles ==
  {File(Header, rows) :
     rows \in SeqsUpTo({Row(0, ads, v, s, a, c, p, 1, 1) :
                          v \in Vals, s \in Vals, a \in Vals, c \in Vals, p \in Vals},
                       MaxRows)}

\* ------------------------------------------------------------ load_sample
\* variant of the cache that hands out the stored object itself
CacheReturn_shared(v) == [ref |-> "shared", val |-> v]

\* st.cache_data hands every caller a fresh copy of the stored value
CacheReturn(v) == [ref |-> "copy", val |-> v]

\* @st.cache_data def load_sample(): return pd.read_csv("sample_data.csv")
load_sample(c, n) ==
  LET stored == IF c = Null THEN read_csv(SampleFile) ELSE c
  IN [cache |-> stored, parses |-> IF c = Null THEN n + 1 ELSE n, df |-> CacheReturn(stored)]

\* ---------------------------------------------------------------- actions
\* One script run (lines 14-114) with the button value use_sample, the
\* uploader holding up and the widget state w.
Rerun(use_sample, up, w, ev) ==
  /\ uploaded' = up
  /\ event' = ev
  /\ IF up # NoFile
       THEN /\ \E o \in Script(read_csv(up), w) : out' = o.out /\ widgets' = o.widgets
            /\ loaded' = TRUE
            /\ UNCHANGED <<cache, parses, loads, firstSample, lastSample>>
     ELSE IF use_sample
       THEN LET l == load_sample(cache, parses)
            IN /\ \E o \in Script(l.df.val, w) :
                    /\ out' = o.out
                    /\ widgets' = o.widgets
                    /\ cache' = IF l.df.ref = "copy" THEN l.cache ELSE o.mutated
               /\ parses' = l.parses
               /\ loads' = loads + 1
               /\ loaded' = TRUE
               /\ firstSample' = IF loads = 0 THEN l.df.val ELSE firstSample
               /\ lastSample' = l.df.val
     ELSE /\ out' = NoOutput
          /\ widgets' = NoWidgets
          /\ UNCHANGED <<cache, parses, loads, loaded, firstSample, lastSample>>

\* the user clicks "Load sample dataset"
ClickSample ==
  /\ uploaded = NoFile => loads < MaxLoads
  /\ Rerun(TRUE, uploaded, widgets, "sample")

\* the user puts a file into the uploader
Upload(f) ==
  /\ f # uploaded
  /\ Rerun(FALSE, f, widgets, "upload")

\* the user removes the file from the uploader
RemoveUpload ==
  /\ uploaded # NoFile
  /\ Rerun(FALSE, NoFile, widgets, "remove")

\* the user picks another start date
ChangeStart(d) ==
  /\ widgets.start.k = "set"
  /\ d # widgets.start.val
  /\ Rerun(FALSE, uploaded, [widgets EXCEPT !.start.val = d], "filter")

\* the user picks another end date
ChangeEnd(d) ==
  /\ widgets.end.k = "set"
  /\ d # widgets.end.val
  /\ Rerun(FALSE, uploaded, [widgets EXCEPT !.end.val = d], "filter")

\* the user changes the channel selection
ChangeChannels(sel) ==
  /\ widgets.channels.k = "set"
  /\ sel \subseteq Range(widgets.channels.id)
  /\ sorted(sel) # widgets.channels.val
  /\ Rerun(FALSE, uploaded, [widgets EXCEPT !.channels.val = sorted(sel)], "filter")

\* --------------------------------------------------------- specifications
\* a fresh session: the script has run once with nothing loaded
Init ==
  /\ uploaded = NoFile
  /\ cache = Null
  /\ parses = 0
  /\ loads = 0
  /\ widgets = NoWidgets
  /\ out = NoOutput
  /\ event = "open"
  /\ loaded = FALSE
  /\ firstSample = Null
  /\ lastSample = Null

\* a session whose first interaction was the upload of a file of F
InitUploaded(F) ==
  /\ uploaded \in F
  /\ cache = Null
  /\ parses = 0
  /\ loads = 0
  /\ \E o \in Script(read_csv(uploaded), NoWidgets) : out = o.out /\ widgets = o.widgets
  /\ event = "upload"
  /\ loaded = TRUE
  /\ firstSample = Null
  /\ lastSample = Null

Next ==
  \/ ClickSample
  \/ \E f \in Files : Upload(f)
  \/ RemoveUpload
  \/ \E d \in Days : ChangeStart(d)
  \/ \E d \in Days : ChangeEnd(d)
  \/ \E sel \in SUBSET ChannelNames : ChangeChannels(sel)

Spec == Init /\ [][Next]_vars

\* the filter widgets alone, for the specifications that start from an
\* uploaded file
Refilter ==
  \/ \E d \in Days : ChangeStart(d)
  \/ \E d \in Days : ChangeEnd(d)
  \/ \E sel \in SUBSET ChannelNames : ChangeChannels(sel)

InitCols == InitUploaded(ColFiles)
SpecCols == InitCols /\ [][Refilter]_vars

InitFilter == InitUploaded(FilterFiles)
SpecFilter == InitFilter /\ [][Refilter]_vars

InitChan == InitUploaded(ChanFiles)
SpecChan == InitChan /\ [][Refilter]_vars

InitFunnel == InitUploaded(FunnelFiles)
SpecFunnel == InitFunnel /\ [][Refilter]_vars

\* ----------------------------------------------------------------- claims
Rendered == out.status \in {"ok", "IndexError"}

\* C1: whenever the filters leave no row of a validated dataset, the run
\* completes: the four KPI sums and the three KPI ratios are 0, the five
\* funnel counts are 0 and the three insights are written.
C1_EmptyFilterCompletes ==
  (Rendered /\ out.rows = <<>>) =>
     /\ out.status = "ok"
     /\ out.kpi.spend = 0 /\ out.kpi.revenue = 0
     /\ out.kpi.purchases = 0 /\ out.kpi.visits = 0
     /\ out.kpi.roas[1] = 0 /\ out.kpi.cac[1] = 0 /\ out.kpi.cvr[1] = 0
     /\ \A i \in 1..Len(out.funnel) : out.funnel[i].count = 0
     /\ out.best # Null /\ out.worst # Null /\ out.drop # Null

\* the required names in ascending order of their code points
SortedRequired ==
  <<cCart, cChannel, cCheckout, cDate, cPurchase, cRevenue, cSignup, cSpend, cVisits>>

\* the uploaded header writes the required column n, in either spelling
Present(n) == \E i \in 1..Len(uploaded.cols) : uploaded.cols[i] \in {n, Messy(n)}

\* C2: a run over a file that lacks required columns reports exactly the
\* missing required names in ascending order and produces nothing else (no
\* filter widget, no KPI, funnel, trend, channel or insight output); a run
\* over a file with all nine columns reports no missing column.
C2_MissingColumnsHalt ==
  uploaded # NoFile =>
    IF \E n \in required : ~Present(n)
      THEN /\ out.status = "missing"
           /\ out.missing = SelectSeq(SortedRequired, LAMBDA n : ~Present(n))
           /\ widgets = NoWidgets
           /\ out.rows = <<>> /\ out.kpi = Null /\ out.funnel = <<>>
           /\ out.trend = <<>> /\ out.by_ch = <<>>
           /\ out.best = Null /\ out.worst = Null /\ out.drop = Null
      ELSE out.status # "missing" /\ out.missing = <<>>

C2_Witness ==
  /\ out.status = "missing"
  /\ Len(out.missing) >= 2
  /\ \E i \in 1..Len(uploaded.cols) : uploaded.cols[i] = Messy(cDate)

\* row i of the uploaded file lies in the date range and the channel
\* selection the run used
Wanted(i) ==
  /\ out.start * TicksPerDay <= uploaded.rows[i][1].t
  /\ uploaded.rows[i][1].t < (out.end + 1) * TicksPerDay
  /\ \E j \in 1..Len(out.channels) : out.channels[j] = uploaded.rows[i][2]

\* C3: the filtered dataset is exactly the rows of the loaded file whose day
\* lies in [start, end], both ends included, and whose channel is selected,
\* in their original order and with their values; start, end and the
\* selection are the values the widgets hold.
C3_FilterIsExactSubsequence ==
  (Rendered /\ uploaded # NoFile) =>
     /\ out.start = widgets.start.val /\ out.end = widgets.end.val
     /\ out.channels = widgets.channels.val
     /\ \A i \in 1..Len(uploaded.rows) :
          Wanted(i) <=> \E j \in 1..Len(out.rows) : out.rows[j].idx = i - 1
     /\ \A j \in 1..Len(out.rows) :
          /\ out.rows[j].idx + 1 \in 1..Len(uploaded.rows)
          /\ Tail(out.rows[j].cells) = Tail(uploaded.rows[out.rows[j].idx + 1])
          /\ out.rows[j].cells[1].t = uploaded.rows[out.rows[j].idx + 1][1].t
          /\ \A k \in 1..Len(out.rows) : j < k => out.rows[j].idx < out.rows[k].idx

C3_Witness ==
  /\ Rendered /\ event = "filter"
  /\ Len(uploaded.rows) = 2 /\ Len(out.rows) = 1
  /\ out.start = out.end
  /\ out.rows[1].cells[1].t % TicksPerDay # 0
  /\ uploaded.rows[1][2] = uploaded.rows[2][2]

RECURSIVE Total(_, _)
Total(ch, field) == IF ch = <<>> THEN 0 ELSE ch[1][field] + Total(Tail(ch), field)

\* C4: the channel rows add up to the KPI totals (spend, revenue, purchase,
\* visits) and every filtered record belongs to exactly one channel row.
C4_ChannelRowsSumToKPIs ==
  Rendered =>
     /\ Total(out.by_ch, "spend") = out.kpi.spend
     /\ Total(out.by_ch, "revenue") = out.kpi.revenue
     /\ Total(out.by_ch, "purchase") = out.kpi.purchases
     /\ Total(out.by_ch, "visits") = out.kpi.visits
     /\ \A j \in 1..Len(out.rows) :
          Cardinality({i \in 1..Len(out.by_ch) :
                         out.by_ch[i].channel = out.rows[j].cells[2]}) = 1

C4_Witness ==
  /\ Rendered /\ Len(out.rows) = 2 /\ Len(out.by_ch) = 2
  /\ out.kpi.spend > 0 /\ out.kpi.revenue > 0

\* C5: when some channel row has a defined roas (its spend is not 0), the
\* best-ROAS insight names the row with the greatest defined roas, and the
\* first such row of the channel table when several share it.
C5_BestIsFirstMaximum ==
  (Rendered /\ \E j \in 1..Len(out.by_ch) : out.by_ch[j].spend # 0) =>
     \E i \in 1..Len(out.by_ch) :
        /\ out.best = [channel |-> out.by_ch[i].channel, roas |-> out.by_ch[i].roas]
        /\ out.by_ch[i].spend # 0
        /\ \A j \in 1..Len(out.by_ch) : out.by_ch[j].spend # 0 =>
             /\ out.by_ch[j].roas.v <= out.by_ch[i].roas.v
             /\ out.by_ch[j].roas.v = out.by_ch[i].roas.v => i <= j

\* stage i of the funnel has a defined drop-off
Defined(i) == i < Len(out.funnel) /\ out.funnel[i].count > 0

\* the drop-off of a defined stage, in 1/10000
Exact(i) ==
  RoundHalfEven((out.funnel[i].count - out.funnel[i + 1].count) * 10000, out.funnel[i].count)

\* C6: the biggest-drop insight names the stage with the greatest drop-off
\* among the stages whose drop-off is defined (not the last stage, not a
\* stage that counts 0), the earliest such stage on a tie.
C6_BiggestDropIsDefinedMaximum ==
  (Rendered /\ out.drop # Null) =>
     \E i \in 1..Len(out.funnel) :
        /\ out.drop.stage = out.funnel[i].stage
        /\ Defined(i)
        /\ \A j \in 1..Len(out.funnel) : Defined(j) =>
             Exact(j) <= Exact(i) /\ (Exact(j) = Exact(i) => i <= j)

\* C7: a stage before the last has the drop-off (count - next) / count
\* rounded to 4 decimals when it counts more than 0 and an undefined one
\* when it counts 0; the last stage's drop-off is undefined.
C7_DropoffDefinedIffCounted ==
  Rendered =>
     \A i \in 1..Len(out.funnel) :
        IF Defined(i) THEN out.funnel[i].dropoff = Num(Exact(i))
        ELSE IsMissing(out.funnel[i].dropoff)

\* C8: in every channel row a ratio is undefined exactly when its
\* denominator is 0: roas with spend, cac with purchase, cvr with visits.
C8_RatioUndefinedIffZeroDenominator ==
  Rendered =>
     \A i \in 1..Len(out.by_ch) :
        /\ IsMissing(out.by_ch[i].roas) <=> out.by_ch[i].spend = 0
        /\ IsMissing(out.by_ch[i].cac) <=> out.by_ch[i].purchase = 0
        /\ IsMissing(out.by_ch[i].cvr) <=> out.by_ch[i].visits = 0

\* C9: once the sample is loaded the cached dataset stays what the first
\* load returned, every later load returns the same data, and the sample
\* file has been parsed exactly once.
C9_CachedSampleIsReadOnly ==
  /\ parses <= 1
  /\ loads > 0 =>
       /\ parses = 1
       /\ cache = firstSample
       /\ lastSample = firstSample
       /\ firstSample = read_csv(SampleFile)

C9_Witness == loads >= 2 /\ event = "sample" /\ out.status = "ok" /\ parses = 1

\* C10: after a dataset was loaded, a run triggered by a filter change is a
\* full pipeline run with all its output, never the "no dataset" halt.
C10_FilterChangeRerunsPipeline ==
  (event = "filter" /\ loaded) => out.status = "ok"

====
